---- MODULE Spec2Model ----
(***************************************************************************)
(* Model of the editor store of the block editor (store/editorStore.ts,    *)
(* utils/blockUtils.ts, utils/ids.ts, types/*.ts).                         *)
(*                                                                         *)
(* The store holds one Document: the ordered list rootBlockIds and the     *)
(* map blocks from block id to block record.  Every store action is one    *)
(* synchronous call; the model has one action per store action.  Strings   *)
(* are sequences of one-character strings, RichText[] is a sequence of     *)
(* records [text, marks], Mark[] is a sequence of mark types.              *)
(*                                                                         *)
(* The source holds two copies of createEmptyDocument: one gives a single  *)
(* empty paragraph, the other four blocks with sample text.  The store     *)
(* starts with the document of either.                                     *)
(*                                                                         *)
(* Timestamps are values of Date.now().  A call reads the clock once for   *)
(* each timestamp it writes; two calls may read the same value, and the    *)
(* clock may move between the reads of one call.                           *)
(*                                                                         *)
(* The map blocks is a plain object: a lookup with a name that objects     *)
(* inherit from Object.prototype finds a value that is not a block.        *)
(*                                                                         *)
(* The history slice (store/history.ts) adds the undo history, the pending *)
(* batch of typing and its timeout.  It has its own specifications:        *)
(* SpecHistory interleaves text-edit commits, structural commits, the      *)
(* timeout callback, commitBatch, undo and redo; SpecBursts is the long    *)
(* run of typing bursts that fills the history up to maxEntries; SpecLive  *)
(* is SpecHistory with the event loop running every scheduled timeout.     *)
(* SpecFocus adds setFocusedBlock to the actions that add and remove       *)
(* blocks.                                                                 *)
(***************************************************************************)
EXTENDS Integers, Sequences, FiniteSets, TLC

(* ------------------------------ bounds --------------------------------- *)

\* A call that does not read the clock one unit after the call before (it
\* runs in the same unit, or the clock moves between its reads) counts as two
\* calls in the bounds below; so does a store whose construction saw the
\* clock move.

\* number of store actions called in one behaviour that starts from the
\* document of one empty paragraph
MaxCalls == 4

\* number of calls in one behaviour that starts from the sample document
MaxSampleCalls == 2

\* number of calls in one behaviour of the history slice
MaxHistoryCalls == 5

\* number of calls in one behaviour of the history slice under fairness;
\* timeouts run beyond it
MaxLiveCalls == 3

\* number of calls in one behaviour of typing bursts that do not read the
\* clock one unit after the call before, the construction of the store
\* included
MaxBurstSkews == 1

\* number of calls in one behaviour of typing bursts
MaxBurstCalls == 210

(* ------------------------------ values --------------------------------- *)

\* the ids createId() returns, in the order it returns them: every call
\* returns an id not returned before
IdPool == [n \in Nat \ {0} |-> "b" \o ToString(n)]

\* JavaScript null (afterBlockId, focusedBlockId)
Null == "null"

\* JavaScript undefined: the value of a call of a function returning void
Undefined == "undefined"

\* an id that resolves to no block
UnknownId == "zz"

\* names of properties every plain object inherits from Object.prototype
ObjectPrototypeKeys ==
    {"constructor", "toString", "__proto__", "hasOwnProperty", "valueOf",
     "isPrototypeOf", "propertyIsEnumerable", "toLocaleString",
     "__defineGetter__", "__defineSetter__", "__lookupGetter__",
     "__lookupSetter__"}

\* the one of them passed as an id
InheritedId == "constructor"

\* the exception thrown by reading a property of undefined
TypeError == "TypeError"

Min(a, b) == IF a < b THEN a ELSE b

Max(a, b) == IF a > b THEN a ELSE b

Range(s) == {s[i] : i \in 1..Len(s)}

\* Array.prototype.indexOf, 0-based, -1 when absent
IndexOf(s, x) ==
    IF \E i \in 1..Len(s) : s[i] = x
    THEN (CHOOSE i \in 1..Len(s) : s[i] = x /\ \A j \in 1..(i - 1) : s[j] # x) - 1
    ELSE -1

\* relative index of slice(): negative counts from the end, then clamped
SliceIndex(x, len) == IF x < 0 THEN Max(len + x, 0) ELSE Min(x, len)

\* String.prototype.slice(start, end) / Array.prototype.slice(start, end)
Slice(s, start, end) ==
    LET from == SliceIndex(start, Len(s))
        to == SliceIndex(end, Len(s))
    IN IF from >= to THEN <<>> ELSE SubSeq(s, from + 1, to)

\* slice(start) with the end omitted
SliceFrom(s, start) == Slice(s, start, Len(s))

\* Array.prototype.filter((id) => id !== x)
RECURSIVE FilterOut(_, _)
FilterOut(s, x) ==
    IF s = <<>> THEN <<>>
    ELSE IF Head(s) = x THEN FilterOut(Tail(s), x)
         ELSE <<Head(s)>> \o FilterOut(Tail(s), x)

\* content.map((rt) => rt.text).join("")
RECURSIVE richTextToPlainText(_)
richTextToPlainText(content) ==
    IF content = <<>> THEN <<>>
    ELSE Head(content).text \o richTextToPlainText(Tail(content))

\* text ? [{ text, marks: [] }] : []   (the empty string is falsy)
plainTextToRichText(text) ==
    IF text = <<>> THEN <<>> ELSE <<[text |-> text, marks |-> <<>>]>>

\* type.startsWith("heading")
StartsWithHeading(type) == type \in {"heading1", "heading2", "heading3"}

\* block.type === "paragraph" || block.type.startsWith("heading")
HasContent(type) == type = "paragraph" \/ StartsWithHeading(type)

\* parseInt(type.replace("heading", ""))
HeadingLevel(type) ==
    CASE type = "heading1" -> 1
      [] type = "heading2" -> 2
      [] type = "heading3" -> 3

\* `heading${level}`
HeadingType(level) ==
    CASE level = 1 -> "heading1"
      [] level = 2 -> "heading2"
      [] level = 3 -> "heading3"

(* --------------------------- block factories ---------------------------- *)

\* createParagraphBlock(text) with the id createId() returns and the time
\* Date.now() returns
createParagraphBlock(id, text, t) ==
    [id |-> id, type |-> "paragraph", content |-> plainTextToRichText(text),
     children |-> <<>>, createdAt |-> t, updatedAt |-> t]

createHeadingBlock(id, level, text, t) ==
    [id |-> id, type |-> HeadingType(level), content |-> plainTextToRichText(text),
     children |-> <<>>, createdAt |-> t, updatedAt |-> t]

\* createEmptyDocument of utils/blockUtils.ts as documented: one empty
\* paragraph.  ts are the values its reads of Date.now() return: the first is
\* the document's, the second the block's.
createEmptyDocument(id, ts) ==
    [id |-> "doc", title |-> "Untitled",
     rootBlockIds |-> <<id>>,
     blocks |-> (id :> createParagraphBlock(id, <<>>, ts[2])),
     createdAt |-> ts[1], updatedAt |-> ts[1]]

SampleParagraph1 ==
    <<"T", "h", "i", "s", " ", "i", "s", " ", "a", " ", "t", "e", "s", "t",
      " ", "p", "a", "r", "a", "g", "r", "a", "p", "h", " ", "t", "o", " ",
      "v", "e", "r", "i", "f", "y", " ", "M", "i", "l", "e", "s", "t", "o",
      "n", "e", " ", "4", " ", "r", "e", "n", "d", "e", "r", "i", "n", "g",
      " ", "w", "o", "r", "k", "s", " ", "c", "o", "r", "r", "e", "c", "t",
      "l", "y", ".">>

SampleHeading1 ==
    <<"H", "e", "a", "d", "i", "n", "g", " ", "1", " ", "T", "e", "s", "t">>

SampleHeading2 ==
    <<"H", "e", "a", "d", "i", "n", "g", " ", "2", " ", "T", "e", "s", "t">>

SampleParagraph2 ==
    <<"A", "n", "o", "t", "h", "e", "r", " ", "p", "a", "r", "a", "g", "r",
      "a", "p", "h", " ", "b", "l", "o", "c", "k", ".">>

\* createEmptyDocument of the other copy of utils/blockUtils.ts, which seeds
\* four blocks with sample text; ids are the four ids createId() returns.  ts
\* are the values its reads of Date.now() return: the first is the
\* document's, the next four the blocks'.
createSampleDocument(ids, ts) ==
    [id |-> "doc", title |-> "Untitled",
     rootBlockIds |-> <<ids[1], ids[2], ids[3], ids[4]>>,
     blocks |-> (ids[1] :> createParagraphBlock(ids[1], SampleParagraph1, ts[2])) @@
                (ids[2] :> createHeadingBlock(ids[2], 1, SampleHeading1, ts[3])) @@
                (ids[3] :> createHeadingBlock(ids[3], 2, SampleHeading2, ts[4])) @@
                (ids[4] :> createParagraphBlock(ids[4], SampleParagraph2, ts[5])),
     createdAt |-> ts[1], updatedAt |-> ts[1]]

\* the block createBlock builds for the requested type
NewBlockOfType(id, type, t) ==
    IF type = "paragraph" THEN createParagraphBlock(id, <<>>, t)
    ELSE IF StartsWithHeading(type)
         THEN createHeadingBlock(id, HeadingLevel(type), <<>>, t)
         ELSE createParagraphBlock(id, <<>>, t)

\* blocks[blockId] is an own property of the plain object blocks
OwnBlock(doc, blockId) == blockId \in DOMAIN doc.blocks

\* blocks[blockId] is truthy: an own property, or a property that every
\* plain object inherits from Object.prototype
HasBlock(doc, blockId) ==
    OwnBlock(doc, blockId) \/ blockId \in ObjectPrototypeKeys

\* { ...blocks, [id]: block }
PutBlock(blocks, id, block) ==
    [k \in (DOMAIN blocks) \cup {id} |-> IF k = id THEN block ELSE blocks[k]]

\* const { [id]: _, ...rest } = blocks
DropBlock(blocks, id) == [k \in (DOMAIN blocks) \ {id} |-> blocks[k]]

\* [...s.slice(0, index + 1), x, ...s.slice(index + 1)]
InsertAfterIndex(s, index, x) ==
    Slice(s, 0, index + 1) \o <<x>> \o SliceFrom(s, index + 1)

(* --------------------------- store actions ----------------------------- *)

(***************************************************************************)
(* The operators take ts, the values the successive calls of Date.now()    *)
(* return during the call: ts[1] is the first read, ts[2] the second.      *)
(***************************************************************************)

\* mutant: the document's updatedAt is not written
updateBlockContent_docStale(doc, blockId, content, ts) ==
    IF ~HasBlock(doc, blockId) THEN [doc |-> doc, ret |-> Undefined]
    ELSE IF ~OwnBlock(doc, blockId) THEN [doc |-> doc, ret |-> TypeError]
    ELSE LET block == doc.blocks[blockId] IN
         IF HasContent(block.type)
         THEN [doc |-> [doc EXCEPT
                 !.blocks = PutBlock(doc.blocks, blockId,
                               [block EXCEPT !.content = content, !.updatedAt = ts[1]])],
               ret |-> Undefined]
         ELSE [doc |-> doc, ret |-> Undefined]

\* updateBlockContent(blockId, content): [doc: the document it produces,
\* ret: undefined, or TypeError when it throws].  An inherited property is
\* truthy and has no type, so block.type.startsWith throws.
updateBlockContent(doc, blockId, content, ts) ==
    IF ~HasBlock(doc, blockId) THEN [doc |-> doc, ret |-> Undefined]
    ELSE IF ~OwnBlock(doc, blockId) THEN [doc |-> doc, ret |-> TypeError]
    ELSE LET block == doc.blocks[blockId] IN
         IF HasContent(block.type)
         THEN [doc |-> [doc EXCEPT
                 !.blocks = PutBlock(doc.blocks, blockId,
                               [block EXCEPT !.content = content, !.updatedAt = ts[1]]),
                 !.updatedAt = ts[2]],
               ret |-> Undefined]
         ELSE [doc |-> doc, ret |-> Undefined]

\* mutant: the new block is always appended, whatever afterBlockId is
CreateRootBlockIds_append(rootBlockIds, afterBlockId, newBlockId) ==
    rootBlockIds \o <<newBlockId>>

\* mutant: the found-check on the index is dropped, so an afterBlockId that
\* is not in the list splices at index -1 + 1 = 0
CreateRootBlockIds_unchecked(rootBlockIds, afterBlockId, newBlockId) ==
    LET index == IndexOf(rootBlockIds, afterBlockId) IN
    IF afterBlockId = Null THEN rootBlockIds \o <<newBlockId>>
    ELSE InsertAfterIndex(rootBlockIds, index, newBlockId)

\* newRootBlockIds of createBlock
CreateRootBlockIds(rootBlockIds, afterBlockId, newBlockId) ==
    LET index == IndexOf(rootBlockIds, afterBlockId) IN
    IF afterBlockId = Null THEN rootBlockIds \o <<newBlockId>>
    ELSE IF index # -1
         THEN InsertAfterIndex(rootBlockIds, index, newBlockId)
         ELSE rootBlockIds \o <<newBlockId>>

\* createBlock(afterBlockId, type): the document it produces; newBlockId is
\* the id createId() gave the new block, which is also the value returned
createBlock(doc, afterBlockId, type, newBlockId, ts) ==
    LET newBlock == NewBlockOfType(newBlockId, type, ts[1]) IN
    [doc EXCEPT
       !.blocks = PutBlock(doc.blocks, newBlockId, newBlock),
       !.rootBlockIds = CreateRootBlockIds(doc.rootBlockIds, afterBlockId, newBlockId),
       !.updatedAt = ts[2]]

\* mutant: the guard for the last block is missing
IsLastBlock_never(doc) == FALSE

\* state.document.rootBlockIds.length <= 1
IsLastBlock(doc) == Len(doc.rootBlockIds) <= 1

\* mutant: the block is removed from rootBlockIds but its record is kept
DeleteFromBlocks_keep(blocks, blockId) == blocks

\* const { [blockId]: _, ...remainingBlocks } = state.document.blocks
DeleteFromBlocks(blocks, blockId) == DropBlock(blocks, blockId)

\* deleteBlock(blockId): the document it produces
deleteBlock(doc, blockId, ts) ==
    IF IsLastBlock(doc) THEN doc
    ELSE [doc EXCEPT
            !.blocks = DeleteFromBlocks(doc.blocks, blockId),
            !.rootBlockIds = FilterOut(doc.rootBlockIds, blockId),
            !.updatedAt = ts[1]]

\* mutant: the two contents are concatenated in the wrong order
MergedContent_reversed(previousContent, currentContent) ==
    currentContent \o previousContent

\* mutant: the content of the merged block is lost
MergedContent_dropCurrent(previousContent, currentContent) == previousContent

\* [...previousBlock.content, ...currentBlock.content]
MergedContent(previousContent, currentContent) ==
    previousContent \o currentContent

\* mutant: a merge that does not apply still stamps the document
MergeNotApplied_touch(doc, ts) == [doc EXCEPT !.updatedAt = ts[1]]

\* `return state` of mergeBlockWithPrevious: the merge does not apply
MergeNotApplied(doc, ts) == doc

\* mergeBlockWithPrevious(blockId): the document it produces.  Both blocks
\* are looked up with ids found in rootBlockIds.
mergeBlockWithPrevious(doc, blockId, ts) ==
    LET currentIndex == IndexOf(doc.rootBlockIds, blockId) IN
    IF currentIndex <= 0 THEN MergeNotApplied(doc, ts)
    ELSE LET previousBlockId == doc.rootBlockIds[currentIndex]
         IN IF ~HasBlock(doc, previousBlockId) \/ ~HasBlock(doc, blockId)
            THEN MergeNotApplied(doc, ts)
            ELSE LET previousBlock == doc.blocks[previousBlockId]
                     currentBlock == doc.blocks[blockId]
                 IN IF HasContent(previousBlock.type) /\ HasContent(currentBlock.type)
                    THEN LET updatedPreviousBlock ==
                                 [previousBlock EXCEPT
                                    !.content = MergedContent(previousBlock.content,
                                                              currentBlock.content),
                                    !.updatedAt = ts[1]]
                         IN [doc EXCEPT
                               !.blocks = PutBlock(DropBlock(doc.blocks, blockId),
                                                   previousBlockId, updatedPreviousBlock),
                               !.rootBlockIds = FilterOut(doc.rootBlockIds, blockId),
                               !.updatedAt = ts[2]]
                    ELSE MergeNotApplied(doc, ts)

\* mutant: the character at the offset is lost
AfterText_skip(fullText, offset) == SliceFrom(fullText, offset + 1)

\* fullText.slice(offset)
AfterText(fullText, offset) == SliceFrom(fullText, offset)

\* fullText.slice(0, offset)
BeforeText(fullText, offset) == Slice(fullText, 0, offset)

\* mutant: the new sibling has the kind of the block that is split
SplitSibling_sameKind(block, newBlockId, afterText, t) ==
    [createParagraphBlock(newBlockId, afterText, t) EXCEPT !.type = block.type]

\* the block splitBlock creates next to block: createParagraphBlock(afterText)
SplitSibling(block, newBlockId, afterText, t) ==
    createParagraphBlock(newBlockId, afterText, t)

\* splitBlock(blockId, offset): [doc: the document it produces, ret: the value
\* it returns, or TypeError when it throws, made: whether
\* createParagraphBlock (hence createId) was called].  An inherited property
\* is truthy and has no type, so block.type.startsWith throws.
splitBlock(doc, blockId, offset, newBlockId, ts) ==
    IF ~HasBlock(doc, blockId) THEN [doc |-> doc, ret |-> "", made |-> FALSE]
    ELSE IF ~OwnBlock(doc, blockId)
         THEN [doc |-> doc, ret |-> TypeError, made |-> FALSE]
    ELSE LET block == doc.blocks[blockId] IN
         IF ~HasContent(block.type) THEN [doc |-> doc, ret |-> "", made |-> FALSE]
         ELSE LET fullText == richTextToPlainText(block.content)
                  beforeText == BeforeText(fullText, offset)
                  afterText == AfterText(fullText, offset)
                  newBlock == SplitSibling(block, newBlockId, afterText, ts[1])
                  currentIndex == IndexOf(doc.rootBlockIds, blockId)
                  updatedBlock == [block EXCEPT
                                     !.content = plainTextToRichText(beforeText),
                                     !.updatedAt = ts[2]]
              IN IF currentIndex = -1
                 THEN [doc |-> doc, ret |-> newBlockId, made |-> TRUE]
                 ELSE [doc |-> [doc EXCEPT
                                  !.blocks = PutBlock(PutBlock(doc.blocks, blockId, updatedBlock),
                                                      newBlockId, newBlock),
                                  !.rootBlockIds = InsertAfterIndex(doc.rootBlockIds,
                                                                    currentIndex, newBlockId),
                                  !.updatedAt = ts[3]],
                       ret |-> newBlockId, made |-> TRUE]

\* setFocusedBlock(blockId): the ui it produces
setFocusedBlock(uiState, blockId) ==
    [uiState EXCEPT !.focusedBlockId = blockId]

(* --------------------------- history slice ----------------------------- *)

(***************************************************************************)
(* store/history.ts.  The operators below take the store state s that      *)
(* get() returns: the record [document, history, pendingBatch, timers,     *)
(* nextTimer, batchesOpened, batchCommits].  timers is the set of ids of   *)
(* the timeouts that are scheduled and have neither run nor been cleared,  *)
(* nextTimer is the id the next setTimeout returns.  batchesOpened and     *)
(* batchCommits count the batches pushHistory has opened and the entries   *)
(* commitBatch has pushed; the code does not read them.                    *)
(***************************************************************************)

\* history.maxEntries of the initial state
maxEntries == 100

\* pendingBatch: null
NoBatch == [open |-> FALSE]

\* the initial history of createHistorySlice
InitialHistory == [entries |-> <<>>, currentIndex |-> -1, maxEntries |-> maxEntries]

\* a HistoryEntry: structuredClone(document), Date.now(), operationType
HistoryEntry(document, t, operationType) ==
    [document |-> document, timestamp |-> t, operationType |-> operationType]

\* options?.batch && options?.blockId
IsBatched(batch, blockId) ==
    batch /\ blockId # Undefined /\ blockId # ""

\* the pending batch is for the same block and the same operation type
SameBatch(pendingBatch, blockId, operationType) ==
    /\ pendingBatch.open
    /\ pendingBatch.blockId = blockId
    /\ pendingBatch.operationType = operationType

\* mutant: the callback is never scheduled
setTimeout_dropped(s) ==
    [s EXCEPT !.nextTimer = @ + 1]

\* setTimeout(() => get().commitBatch(), BATCH_TIMEOUT); the id it returns
\* is s.nextTimer
setTimeout(s) ==
    [s EXCEPT !.timers = @ \cup {s.nextTimer}, !.nextTimer = @ + 1]

\* mutant: the timeout is not cleared
clearTimeout_leak(timers, timeoutId) == timers

\* clearTimeout(timeoutId)
clearTimeout(timers, timeoutId) == timers \ {timeoutId}

\* history.entries.slice(0, history.currentIndex + 1) followed by
\* entries.push(newEntry)
PushEntry(history, newEntry) ==
    Append(Slice(history.entries, 0, history.currentIndex + 1), newEntry)

\* if (entries.length > history.maxEntries) entries.shift()
EnforceMax(entries, max) ==
    IF Len(entries) > max THEN Tail(entries) ELSE entries

\* mutant: the pointer is set one past the new entry
CommittedHistory_pastEnd(history, entries) ==
    [history EXCEPT !.entries = entries, !.currentIndex = Len(entries)]

\* mutant: the pointer is not moved to the new entry
CommittedHistory_keepIndex(history, entries) ==
    [history EXCEPT !.entries = entries]

\* { ...history, entries, currentIndex: entries.length - 1 }
CommittedHistory(history, entries) ==
    [history EXCEPT !.entries = entries, !.currentIndex = Len(entries) - 1]

\* commitBatch(); t is the value Date.now() returns
commitBatch(s, t) ==
    IF ~s.pendingBatch.open THEN s
    ELSE LET newEntry == HistoryEntry(s.document, t, s.pendingBatch.operationType)
             entries == PushEntry(s.history, newEntry)
         IN [s EXCEPT
               !.timers = clearTimeout(@, s.pendingBatch.timeoutId),
               !.history = CommittedHistory(s.history, entries),
               !.pendingBatch = NoBatch,
               !.batchCommits = @ + 1]

\* pushHistory(operationType, { batch, blockId }); ts are the values its
\* reads of Date.now() return: commitBatch() reads first when a batch is
\* pending, the new entry reads next.  history, pendingBatch and document are
\* the values read from get() when the call starts; the calls of
\* commitBatch() in between do not refresh them.
pushHistory(s, operationType, batch, blockId, ts) ==
    LET history == s.history
        pendingBatch == s.pendingBatch
        document == s.document
        t == ts[1]
        tEntry == IF pendingBatch.open THEN ts[2] ELSE ts[1]
    IN IF IsBatched(batch, blockId)
       THEN IF SameBatch(pendingBatch, blockId, operationType)
            THEN LET cleared == [s EXCEPT
                        !.timers = clearTimeout(@, pendingBatch.timeoutId)]
                     timeoutId == cleared.nextTimer
                 IN [setTimeout(cleared) EXCEPT
                       !.pendingBatch = [pendingBatch EXCEPT !.timeoutId = timeoutId]]
            ELSE LET flushed == IF pendingBatch.open THEN commitBatch(s, t) ELSE s
                     timeoutId == flushed.nextTimer
                 IN [setTimeout(flushed) EXCEPT
                       !.pendingBatch = [open |-> TRUE,
                                         timeoutId |-> timeoutId,
                                         blockId |-> blockId,
                                         operationType |-> operationType],
                       !.batchesOpened = @ + 1]
       ELSE LET flushed == IF pendingBatch.open THEN commitBatch(s, t) ELSE s
                newEntry == HistoryEntry(document, tEntry, operationType)
                entries == EnforceMax(PushEntry(history, newEntry),
                                      history.maxEntries)
            IN [flushed EXCEPT !.history = CommittedHistory(history, entries)]

\* undo(); t is the value Date.now() returns to commitBatch().  history and
\* pendingBatch are the values read from get() when the call starts.
undo(s, t) ==
    LET history == s.history
        pendingBatch == s.pendingBatch
        flushed == IF pendingBatch.open THEN commitBatch(s, t) ELSE s
    IN IF history.currentIndex <= 0 THEN flushed
       ELSE LET newIndex == history.currentIndex - 1
                entry == history.entries[newIndex + 1]
            IN [flushed EXCEPT
                  !.document = entry.document,
                  !.history = [history EXCEPT !.currentIndex = newIndex]]

\* redo()
redo(s) ==
    LET history == s.history IN
    IF history.currentIndex >= Len(history.entries) - 1 THEN s
    ELSE LET newIndex == history.currentIndex + 1
             entry == history.entries[newIndex + 1]
         IN [s EXCEPT
               !.document = entry.document,
               !.history = [history EXCEPT !.currentIndex = newIndex]]

canUndo(s) == s.history.currentIndex > 0

canRedo(s) == s.history.currentIndex < Len(s.history.entries) - 1

(* ------------------------------ state ---------------------------------- *)

VARIABLES
    document,   \* state.document
    nextId,     \* index in IdPool of the id the next createId() returns
    now,        \* the value Date.now() returned last
    calls,      \* number of calls made
    skews,      \* number of calls, the construction of the store included,
                \* that did not read the clock one unit after the call before
                \* with all their reads
    build,      \* the copy of utils/blockUtils.ts the build has: "empty"
                \* starts with one empty paragraph, "sample" with four blocks
    lastCall,   \* the last store action called, its arguments and its result
    pre,        \* state.document before the last call
    splitOrigin, \* set when the last two calls were splitBlock(B, k) and
                 \* mergeBlockWithPrevious(id returned by that split)
    history,       \* state.history
    pendingBatch,  \* state.pendingBatch
    timers,        \* ids of the timeouts that are scheduled
    nextTimer,     \* the id the next setTimeout returns
    batchesOpened, \* number of batches pushHistory has opened
    batchCommits,  \* number of entries commitBatch has pushed
    hpre,          \* history, pendingBatch and timers before the last call
    burst,         \* progress of the run of commits: typing in b1 three
                   \* times, typing in b2, undo
    selection,     \* state.selection
    ui             \* state.ui

hvars == <<history, pendingBatch, timers, nextTimer, batchesOpened,
           batchCommits, hpre, burst>>

uvars == <<selection, ui>>

vars == <<document, nextId, now, calls, skews, build, lastCall, pre,
          splitOrigin, history,
          pendingBatch, timers, nextTimer, batchesOpened, batchCommits,
          hpre, burst, selection, ui>>

NoCall == [op |-> "none", blockId |-> Null, type |-> Null, content |-> <<>>,
           offset |-> 0, ret |-> Undefined, ts |-> <<>>]

NoOrigin == [set |-> FALSE]

\* no run of commits is in progress
NoBurst == [phase |-> 0]

\* the two copies of utils/blockUtils.ts differ in createEmptyDocument; the
\* store is created with the one the build has
Builds == {"empty", "sample"}

\* for each of n successive reads of Date.now(), whether the clock has moved
\* by one unit since the read before
Moves(n) == [1..n -> {0, 1}]

\* the values the reads return when the last value read before was base
Readings(base, moves) ==
    [i \in DOMAIN moves |->
        base + Cardinality({j \in 1..i : moves[j] = 1})]

\* the values the n reads of Date.now() of createEmptyDocument() may return,
\* counted from the first
InitClocks(n) == {Readings(0, moves) : moves \in {m \in Moves(n) : m[1] = 0}}

\* the state after create(): document is createEmptyDocument()
Init ==
    /\ build \in Builds
    /\ \E ts \in InitClocks(IF build = "empty" THEN 2 ELSE 5) :
          /\ document = IF build = "empty"
                        THEN createEmptyDocument(IdPool[1], ts)
                        ELSE createSampleDocument(IdPool, ts)
          /\ now = ts[Len(ts)]
          /\ skews = IF now = 0 THEN 0 ELSE 1
    /\ calls = 0
    /\ nextId = IF build = "empty" THEN 2 ELSE 5
    /\ lastCall = NoCall
    /\ pre = document
    /\ splitOrigin = NoOrigin
    /\ history = InitialHistory
    /\ pendingBatch = NoBatch
    /\ timers = {}
    /\ nextTimer = 1
    /\ batchesOpened = 0
    /\ batchCommits = 0
    /\ hpre = [history |-> history, pendingBatch |-> pendingBatch,
               timers |-> timers, now |-> now]
    /\ burst = NoBurst
    /\ selection = Null
    /\ ui = [focusedBlockId |-> Null]

(* ------------------------------ inputs --------------------------------- *)

\* the ids a caller may pass: every id handed out so far, one unknown id and
\* one name that plain objects inherit
IdInputs == {IdPool[i] : i \in 1..(nextId - 1)} \cup {UnknownId, InheritedId}

\* the values of Block["type"] passed to createBlock
TypeInputs == {"paragraph", "heading2"}

Plain(text) == [text |-> text, marks |-> <<>>]

Bold(text) == [text |-> text, marks |-> <<"bold">>]

\* the RichText[] values passed to updateBlockContent: all are normalized
ContentInputs ==
    { <<Plain(<<"a", "b">>)>>,
      <<Bold(<<"a">>), Plain(<<"b">>)>> }

\* the offsets passed to splitBlock
OffsetInputs == -1..2

(* ------------------------------ actions -------------------------------- *)

\* n reads of Date.now() one unit after the call before
ClockTick(n) == [i \in 1..n |-> now + 1]

\* the part of the bound on calls that is used up
Spent == calls + skews

\* the values n successive reads of Date.now() may return in one call: the
\* clock may have moved before any of the reads.  Readings off the tick are
\* taken while the bound on calls has room for them.
Clocks(n, bound) ==
    {ClockTick(n)} \cup
    (IF Spent + 2 <= bound THEN {Readings(now, moves) : moves \in Moves(n)}
     ELSE {})

\* the call read ts: time is at the last reading
Clocked(ts) ==
    /\ now' = ts[Len(ts)]
    /\ calls' = calls + 1
    /\ skews' = IF ts = ClockTick(Len(ts)) THEN skews ELSE skews + 1
    /\ UNCHANGED build

\* the bound on the calls of the store actions
StoreCalls == IF build = "empty" THEN MaxCalls ELSE MaxSampleCalls

\* a call may be made
CanCall == Spent < StoreCalls

Call(op, blockId, type, content, offset, ret, ts) ==
    [op |-> op, blockId |-> blockId, type |-> type, content |-> content,
     offset |-> offset, ret |-> ret, ts |-> ts]

UpdateBlockContent ==
    \E blockId \in IdInputs, content \in ContentInputs,
       ts \in Clocks(2, StoreCalls) :
        LET r == updateBlockContent(document, blockId, content, ts) IN
        /\ CanCall
        /\ document' = r.doc
        /\ lastCall' = Call("updateBlockContent", blockId, Null, content, 0, r.ret, ts)
        /\ pre' = document
        /\ splitOrigin' = NoOrigin
        /\ Clocked(ts)
        /\ UNCHANGED nextId
        /\ UNCHANGED hvars
        /\ UNCHANGED uvars

CreateBlock ==
    \E afterBlockId \in IdInputs \cup {Null}, type \in TypeInputs,
       ts \in Clocks(2, StoreCalls) :
        /\ CanCall
        /\ document' = createBlock(document, afterBlockId, type, IdPool[nextId], ts)
        /\ nextId' = nextId + 1
        /\ lastCall' = Call("createBlock", afterBlockId, type, <<>>, 0, IdPool[nextId], ts)
        /\ pre' = document
        /\ splitOrigin' = NoOrigin
        /\ Clocked(ts)
        /\ UNCHANGED hvars
        /\ UNCHANGED uvars

DeleteBlock ==
    \E blockId \in IdInputs, ts \in Clocks(1, StoreCalls) :
        /\ CanCall
        /\ document' = deleteBlock(document, blockId, ts)
        /\ lastCall' = Call("deleteBlock", blockId, Null, <<>>, 0, Undefined, ts)
        /\ pre' = document
        /\ splitOrigin' = NoOrigin
        /\ Clocked(ts)
        /\ UNCHANGED nextId
        /\ UNCHANGED hvars
        /\ UNCHANGED uvars

MergeBlockWithPrevious ==
    \E blockId \in IdInputs, ts \in Clocks(2, StoreCalls) :
        /\ CanCall
        /\ document' = mergeBlockWithPrevious(document, blockId, ts)
        /\ lastCall' = Call("mergeBlockWithPrevious", blockId, Null, <<>>, 0, Undefined, ts)
        /\ pre' = document
        /\ splitOrigin' =
             IF lastCall.op = "splitBlock" /\ lastCall.ret = blockId
             THEN [set |-> TRUE, blockId |-> lastCall.blockId,
                   offset |-> lastCall.offset, doc |-> pre]
             ELSE NoOrigin
        /\ Clocked(ts)
        /\ UNCHANGED nextId
        /\ UNCHANGED hvars
        /\ UNCHANGED uvars

SplitBlock ==
    \E blockId \in IdInputs, offset \in OffsetInputs,
       ts \in Clocks(3, StoreCalls) :
        LET r == splitBlock(document, blockId, offset, IdPool[nextId], ts) IN
        /\ CanCall
        /\ document' = r.doc
        /\ nextId' = IF r.made THEN nextId + 1 ELSE nextId
        /\ lastCall' = Call("splitBlock", blockId, Null, <<>>, offset, r.ret, ts)
        /\ pre' = document
        /\ splitOrigin' = NoOrigin
        /\ Clocked(ts)
        /\ UNCHANGED hvars
        /\ UNCHANGED uvars

Next ==
    \/ UpdateBlockContent
    \/ CreateBlock
    \/ DeleteBlock
    \/ MergeBlockWithPrevious
    \/ SplitBlock

Spec == Init /\ [][Next]_vars

(* ---------------------------- focus actions ---------------------------- *)

\* the values passed to setFocusedBlock: any id a caller may pass, whether
\* or not it is the id of a block of the document, and null to clear the
\* focus
FocusInputs == IdInputs \cup {Null}

SetFocusedBlock ==
    \E blockId \in FocusInputs :
        /\ CanCall
        /\ ui' = setFocusedBlock(ui, blockId)
        /\ lastCall' = Call("setFocusedBlock", blockId, Null, <<>>, 0, Undefined, <<>>)
        /\ pre' = document
        /\ splitOrigin' = NoOrigin
        /\ calls' = calls + 1
        /\ UNCHANGED <<now, skews, build>>
        /\ UNCHANGED <<document, nextId, selection>>
        /\ UNCHANGED hvars

\* focusing, inserting, deleting and merging blocks
NextFocus ==
    \/ SetFocusedBlock
    \/ CreateBlock
    \/ DeleteBlock
    \/ MergeBlockWithPrevious

SpecFocus == Init /\ [][NextFocus]_vars

(* --------------------------- history actions --------------------------- *)

\* what get() returns
Store ==
    [document |-> document, history |-> history, pendingBatch |-> pendingBatch,
     timers |-> timers, nextTimer |-> nextTimer,
     batchesOpened |-> batchesOpened, batchCommits |-> batchCommits]

\* the store state after the call is s
SetStore(s) ==
    /\ document' = s.document
    /\ history' = s.history
    /\ pendingBatch' = s.pendingBatch
    /\ timers' = s.timers
    /\ nextTimer' = s.nextTimer
    /\ batchesOpened' = s.batchesOpened
    /\ batchCommits' = s.batchCommits

HistoryCall(op, operationType, batch, blockId, ts) ==
    [op |-> op, blockId |-> blockId, type |-> Null, content |-> <<>>,
     offset |-> 0, ret |-> Undefined, operationType |-> operationType,
     batch |-> batch, ts |-> ts]

\* the call, which read ts, is recorded
Recorded(call) ==
    /\ lastCall' = call
    /\ pre' = document
    /\ hpre' = [history |-> history, pendingBatch |-> pendingBatch,
                timers |-> timers, now |-> now]
    /\ splitOrigin' = NoOrigin
    /\ Clocked(call.ts)
    /\ UNCHANGED uvars

\* a call of the history slice can be made
CanRecord == Spent < MaxHistoryCalls

\* a call of a typing burst can be made
CanBurst == Spent < MaxBurstCalls

\* the blocks typed in; the second exists once a block has been inserted
TypingTargets == {IdPool[1], IdPool[2]}

\* the text typed
TypedContent == <<Plain(<<"a", "b">>)>>

\* the run of commits after the call op on blockId
BurstAfter(op, blockId) ==
    IF op = "typing" /\ blockId = IdPool[1]
    THEN IF burst.phase \in {1, 2}
         THEN [burst EXCEPT !.phase = @ + 1]
         ELSE IF ~pendingBatch.open
              THEN [phase |-> 1, doc |-> document,
                    base |-> history.currentIndex + 1]
              ELSE NoBurst
    ELSE IF op = "typing" /\ blockId = IdPool[2] /\ burst.phase = 3
         THEN [burst EXCEPT !.phase = 4]
    ELSE IF op = "undo" /\ burst.phase = 4
         THEN [burst EXCEPT !.phase = 5]
    ELSE NoBurst

\* a text-edit commit: the text of blockId is replaced with
\* updateBlockContent and the edit is recorded with
\* pushHistory("typing", { batch: true, blockId })
\* ts: the two reads of updateBlockContent, then the read of pushHistory
TypeTextIn(blockId, ts) ==
    LET edited == [Store EXCEPT
                     !.document = updateBlockContent(document, blockId,
                                                     TypedContent, ts).doc]
    IN /\ SetStore(pushHistory(edited, "typing", TRUE, blockId, SubSeq(ts, 3, 3)))
       /\ Recorded(HistoryCall("pushHistory", "typing", TRUE, blockId, ts))
       /\ burst' = BurstAfter("typing", blockId)
       /\ UNCHANGED nextId

TypeText ==
    /\ CanRecord
    /\ \E blockId \in TypingTargets, ts \in Clocks(3, MaxHistoryCalls) :
          TypeTextIn(blockId, ts)

\* a structural commit: a paragraph is appended with createBlock and the
\* insertion is recorded with pushHistory("createBlock")
\* ts: the two reads of createBlock, then the two reads of pushHistory
InsertBlock ==
    \E ts \in Clocks(4, MaxHistoryCalls) :
        LET edited == [Store EXCEPT
                         !.document = createBlock(document, Null, "paragraph",
                                                  IdPool[nextId], ts)]
        IN /\ CanRecord
           /\ SetStore(pushHistory(edited, "createBlock", FALSE, Undefined,
                                   SubSeq(ts, 3, 4)))
           /\ Recorded(HistoryCall("pushHistory", "createBlock", FALSE, Undefined, ts))
           /\ burst' = BurstAfter("createBlock", Undefined)
           /\ nextId' = nextId + 1

\* the callback of a scheduled timeout runs: () => get().commitBatch().  It
\* runs BATCH_TIMEOUT after the call that scheduled it, so the clock has moved.
TimeoutRuns ==
    \E timeoutId \in timers :
        LET expired == [Store EXCEPT !.timers = @ \ {timeoutId}] IN
        /\ SetStore(commitBatch(expired, ClockTick(1)[1]))
        /\ Recorded(HistoryCall("timeout", Undefined, FALSE, Undefined, ClockTick(1)))
        /\ burst' = BurstAfter("timeout", Undefined)
        /\ UNCHANGED nextId

TimerFires == CanRecord /\ TimeoutRuns

\* commitBatch() is called directly
CommitBatch ==
    \E ts \in Clocks(1, MaxHistoryCalls) :
        /\ CanRecord
        /\ SetStore(commitBatch(Store, ts[1]))
        /\ Recorded(HistoryCall("commitBatch", Undefined, FALSE, Undefined, ts))
        /\ burst' = BurstAfter("commitBatch", Undefined)
        /\ UNCHANGED nextId

Undo ==
    \E ts \in Clocks(1, MaxHistoryCalls) :
        /\ CanRecord
        /\ SetStore(undo(Store, ts[1]))
        /\ Recorded(HistoryCall("undo", Undefined, FALSE, Undefined, ts))
        /\ burst' = BurstAfter("undo", Undefined)
        /\ UNCHANGED nextId

\* redo() does not read the clock; ts is the time at which it is called
Redo ==
    \E ts \in Clocks(1, MaxHistoryCalls) :
        /\ CanRecord
        /\ SetStore(redo(Store))
        /\ Recorded(HistoryCall("redo", Undefined, FALSE, Undefined, ts))
        /\ burst' = BurstAfter("redo", Undefined)
        /\ UNCHANGED nextId

NextHistory ==
    \/ TypeText
    \/ InsertBlock
    \/ TimerFires
    \/ CommitBatch
    \/ Undo
    \/ Redo

SpecHistory == Init /\ [][NextHistory]_vars

\* the quiet interval of a scheduled timeout elapses and its callback runs;
\* the event loop runs it whatever the number of calls made so far
Deadline == timers # {} /\ TimeoutRuns

\* a call can be made in a behaviour checked under fairness
CanCallLive == Spent < MaxLiveCalls

LiveTypeText == CanCallLive /\ TypeText

LiveInsertBlock == CanCallLive /\ InsertBlock

LiveCommitBatch == CanCallLive /\ CommitBatch

LiveUndo == CanCallLive /\ Undo

LiveRedo == CanCallLive /\ Redo

NextLive ==
    \/ LiveTypeText
    \/ LiveInsertBlock
    \/ Deadline
    \/ LiveCommitBatch
    \/ LiveUndo
    \/ LiveRedo

\* the history slice with the event loop's guarantee that a scheduled
\* timeout that is not cleared runs
SpecLive == Init /\ [][NextLive]_vars /\ WF_vars(Deadline)

\* typing in the first block while no batch is pending
\* the values the three reads of Date.now() of a burst's typing may return
BurstClocks ==
    {ClockTick(3)} \cup
    (IF skews < MaxBurstSkews THEN {Readings(now, moves) : moves \in Moves(3)}
     ELSE {})

TypeWhenIdle ==
    /\ CanBurst
    /\ ~pendingBatch.open
    /\ \E ts \in BurstClocks : TypeTextIn(IdPool[1], ts)

\* the timeout of the burst runs
BurstTimeout == CanBurst /\ TimeoutRuns

\* bursts of typing in one block, each ended by its timeout
NextBursts ==
    \/ TypeWhenIdle
    \/ BurstTimeout

SpecBursts == Init /\ [][NextBursts]_vars

(* ----------------------------- properties ------------------------------ *)

TypeOK ==
    /\ nextId \in Nat
    /\ now \in Nat
    /\ calls \in Nat
    /\ skews \in Nat
    /\ build \in Builds

\* no element occurs twice in s
NoDuplicates(s) == \A i, j \in 1..Len(s) : s[i] = s[j] => i = j

\* s without its element at position i (1-based)
RemoveAt(s, i) == SubSeq(s, 1, i - 1) \o SubSeq(s, i + 1, Len(s))

\* s with x inserted so that it becomes element i (1-based)
InsertAt(s, i, x) == SubSeq(s, 1, i - 1) \o <<x>> \o SubSeq(s, i, Len(s))

\* position (1-based) of x in s, 0 when absent
PositionOf(s, x) == IndexOf(s, x) + 1

\* the plain text of the block id of doc
TextOf(doc, id) == richTextToPlainText(doc.blocks[id].content)

\* the blocks of d1 other than those in ids are the same in d2
OthersUnchanged(d1, d2, ids) ==
    \A other \in (DOMAIN d1.blocks) \ ids :
        other \in DOMAIN d2.blocks /\ d2.blocks[other] = d1.blocks[other]

\* C1: after any sequence of store actions the document is consistent:
\* rootBlockIds has no id twice, every id of rootBlockIds is a key of blocks
\* and every key of blocks is in rootBlockIds.
C1_DocumentConsistent ==
    /\ NoDuplicates(document.rootBlockIds)
    /\ Range(document.rootBlockIds) \subseteq DOMAIN document.blocks
    /\ DOMAIN document.blocks \subseteq Range(document.rootBlockIds)

\* C1 witness: a block was deleted from a document of three blocks
C1_Witness ==
    /\ lastCall.op = "deleteBlock"
    /\ Len(pre.rootBlockIds) = 3
    /\ Len(document.rootBlockIds) = 2

\* C2: the document always contains at least one root block.
C2_AtLeastOneRootBlock == Len(document.rootBlockIds) >= 1

\* C2 witness: deleteBlock or mergeBlockWithPrevious was called on a document
\* of one block, after an earlier call had brought it down from two blocks
C2_Witness ==
    /\ lastCall.op \in {"deleteBlock", "mergeBlockWithPrevious"}
    /\ Len(pre.rootBlockIds) = 1
    /\ lastCall.blockId = pre.rootBlockIds[1]
    /\ nextId > 2

\* what the caller of a refused operation is told
Rejected == "Rejected"

\* deleteBlock was called on the sole remaining root block
DeletedSoleBlock ==
    /\ lastCall.op = "deleteBlock"
    /\ Len(pre.rootBlockIds) = 1
    /\ lastCall.blockId = pre.rootBlockIds[1]

\* C3: deleteBlock on the sole remaining root block leaves the Document
\* unchanged (rootBlockIds, blocks, timestamps) and signals Rejected.
C3_DeleteLastRejected ==
    DeletedSoleBlock => (document = pre /\ lastCall.ret = Rejected)

\* C4: splitBlock(B, k) with 0 <= k <= len(T), then mergeBlockWithPrevious
\* on the returned id: B is at its original position with plain text T and
\* rootBlockIds is what it was before the split.
C4_SplitMergeInverse ==
    splitOrigin.set =>
        LET B == splitOrigin.blockId
            k == splitOrigin.offset
            before == splitOrigin.doc
        IN (/\ B \in Range(before.rootBlockIds)
            /\ B \in DOMAIN before.blocks
            /\ k >= 0
            /\ k <= Len(TextOf(before, B)))
           => /\ document.rootBlockIds = before.rootBlockIds
              /\ B \in DOMAIN document.blocks
              /\ TextOf(document, B) = TextOf(before, B)

\* C4 witness: a block of two characters was split in the middle and merged
C4_Witness ==
    /\ splitOrigin.set
    /\ splitOrigin.blockId \in DOMAIN splitOrigin.doc.blocks
    /\ splitOrigin.offset = 1
    /\ Len(TextOf(splitOrigin.doc, splitOrigin.blockId)) = 2
    /\ Len(document.rootBlockIds) = Len(pre.rootBlockIds) - 1

\* splitBlock was called on a block of the document with an offset in range
SplitInRange ==
    /\ lastCall.op = "splitBlock"
    /\ lastCall.blockId \in Range(pre.rootBlockIds)
    /\ lastCall.blockId \in DOMAIN pre.blocks
    /\ HasContent(pre.blocks[lastCall.blockId].type)
    /\ lastCall.offset >= 0
    /\ lastCall.offset <= Len(TextOf(pre, lastCall.blockId))

\* C5: splitBlock(id, k) on a block at index i with text T and 0 <= k <= len(T)
\* leaves id with T[0..k), inserts one new block at index i+1 with T[k..],
\* returns the new id and leaves all other blocks and the order unchanged.
C5_SplitBlock ==
    SplitInRange =>
        LET id == lastCall.blockId
            k == lastCall.offset
            new == lastCall.ret
            T == TextOf(pre, id)
            i == PositionOf(pre.rootBlockIds, id)
        IN /\ new \notin DOMAIN pre.blocks
           /\ DOMAIN document.blocks = (DOMAIN pre.blocks) \cup {new}
           /\ TextOf(document, id) = SubSeq(T, 1, k)
           /\ TextOf(document, new) = SubSeq(T, k + 1, Len(T))
           /\ document.blocks[new].id = new
           /\ document.rootBlockIds = InsertAt(pre.rootBlockIds, i + 1, new)
           /\ OthersUnchanged(pre, document, {id})

\* C5 witness: a block with text was split strictly inside the text while the
\* document held another block after it
C5_Witness ==
    /\ SplitInRange
    /\ lastCall.offset = 1
    /\ Len(TextOf(pre, lastCall.blockId)) = 2
    /\ Len(pre.rootBlockIds) >= 2
    /\ pre.rootBlockIds[1] = lastCall.blockId

\* the format-set of a run
FormatSet(run) == Range(run.marks)

\* a run sequence is normalized
Normalized(content) ==
    /\ \A i \in 1..(Len(content) - 1) :
           FormatSet(content[i]) # FormatSet(content[i + 1])
    /\ \A i \in 1..Len(content) : content[i].text # <<>>

\* C6: with normalized contents passed to updateBlockContent, after any
\* sequence of calls no block has two adjacent runs with identical
\* format-sets, and no run has empty text.
C6_RunsNormalized ==
    \A id \in DOMAIN document.blocks : Normalized(document.blocks[id].content)

\* the format-set of every character of a run sequence, in order
RECURSIVE FormatPerCharacter(_)
FormatPerCharacter(content) ==
    IF content = <<>> THEN <<>>
    ELSE [i \in 1..Len(Head(content).text) |-> FormatSet(Head(content))]
         \o FormatPerCharacter(Tail(content))

\* C7: splitBlock splits the run sequence: the runs left in the original
\* block followed by the runs of the new block give every character of the
\* original text the format-set it had before the split.
C7_SplitKeepsFormats ==
    SplitInRange =>
        FormatPerCharacter(document.blocks[lastCall.blockId].content)
            \o FormatPerCharacter(document.blocks[lastCall.ret].content)
        = FormatPerCharacter(pre.blocks[lastCall.blockId].content)

\* mergeBlockWithPrevious was called on a block that has a preceding sibling
MergeWithSibling ==
    /\ lastCall.op = "mergeBlockWithPrevious"
    /\ PositionOf(pre.rootBlockIds, lastCall.blockId) >= 2
    /\ lastCall.blockId \in DOMAIN pre.blocks
    /\ pre.rootBlockIds[PositionOf(pre.rootBlockIds, lastCall.blockId) - 1]
           \in DOMAIN pre.blocks
    /\ HasContent(pre.blocks[pre.rootBlockIds[
           PositionOf(pre.rootBlockIds, lastCall.blockId) - 1]].type)

\* C8: mergeBlockWithPrevious(id) with a text-bearing predecessor p makes p's
\* runs p's old runs followed by id's runs, removes id from rootBlockIds and
\* blocks, keeps p's kind and leaves the other blocks and the order unchanged.
C8_MergeBlockWithPrevious ==
    MergeWithSibling =>
        LET id == lastCall.blockId
            i == PositionOf(pre.rootBlockIds, id)
            p == pre.rootBlockIds[i - 1]
        IN /\ p \in DOMAIN document.blocks
           /\ document.blocks[p].content
                  = pre.blocks[p].content \o pre.blocks[id].content
           /\ TextOf(document, p) = TextOf(pre, p) \o TextOf(pre, id)
           /\ document.blocks[p].type = pre.blocks[p].type
           /\ id \notin Range(document.rootBlockIds)
           /\ id \notin DOMAIN document.blocks
           /\ DOMAIN document.blocks = (DOMAIN pre.blocks) \ {id}
           /\ document.rootBlockIds = RemoveAt(pre.rootBlockIds, i)
           /\ OthersUnchanged(pre, document, {id, p})

\* C8 witness: a block with text was merged into a predecessor with text
C8_Witness ==
    /\ MergeWithSibling
    /\ TextOf(pre, lastCall.blockId) # <<>>
    /\ TextOf(pre, pre.rootBlockIds[
           PositionOf(pre.rootBlockIds, lastCall.blockId) - 1]) # <<>>

\* mergeBlockWithPrevious was called on a block without a preceding sibling
MergeWithoutSibling ==
    /\ lastCall.op = "mergeBlockWithPrevious"
    /\ PositionOf(pre.rootBlockIds, lastCall.blockId) <= 1

\* C9: mergeBlockWithPrevious on the first id of rootBlockIds, or on an id
\* that is not in rootBlockIds, leaves rootBlockIds, every block's content
\* and all timestamps unchanged.
C9_MergeFirstIsNoOp == MergeWithoutSibling => document = pre

\* C9 witness: the first of at least two blocks was merged
C9_Witness ==
    /\ MergeWithoutSibling
    /\ Len(pre.rootBlockIds) >= 2
    /\ lastCall.blockId = pre.rootBlockIds[1]

\* createBlock was called with null or with the id of a root block
CreateAtKnownPlace ==
    /\ lastCall.op = "createBlock"
    /\ \/ lastCall.blockId = Null
       \/ lastCall.blockId \in Range(pre.rootBlockIds)

\* C10: createBlock(afterBlockId, type) adds one fresh block of the requested
\* kind with an empty run sequence, at index i+1 when afterBlockId is at
\* index i and last when afterBlockId is null; it returns the new id and
\* leaves the other blocks and their order unchanged.
C10_CreateBlock ==
    CreateAtKnownPlace =>
        LET new == lastCall.ret
            i == PositionOf(pre.rootBlockIds, lastCall.blockId)
        IN /\ new \notin DOMAIN pre.blocks
           /\ new \notin Range(pre.rootBlockIds)
           /\ DOMAIN document.blocks = (DOMAIN pre.blocks) \cup {new}
           /\ document.blocks[new].id = new
           /\ document.blocks[new].type = lastCall.type
           /\ document.blocks[new].content = <<>>
           /\ document.rootBlockIds =
                  IF lastCall.blockId = Null
                  THEN pre.rootBlockIds \o <<new>>
                  ELSE InsertAt(pre.rootBlockIds, i + 1, new)
           /\ OthersUnchanged(pre, document, {})

\* C10 witness: a heading was created after a block that was not the last
C10_Witness ==
    /\ CreateAtKnownPlace
    /\ lastCall.blockId # Null
    /\ PositionOf(pre.rootBlockIds, lastCall.blockId) < Len(pre.rootBlockIds)
    /\ lastCall.type = "heading2"

\* createBlock was called with an afterBlockId that is not null and is not
\* the id of a root block
CreateAtUnknownPlace ==
    /\ lastCall.op = "createBlock"
    /\ lastCall.blockId # Null
    /\ lastCall.blockId \notin Range(pre.rootBlockIds)

\* C11 as stated: createBlock with a non-null afterBlockId that is not in
\* rootBlockIds adds no block and leaves the Document unchanged.
C11_CreateAfterUnknownFails == CreateAtUnknownPlace => document = pre

\* C11 amended: createBlock with a non-null afterBlockId that is not in
\* rootBlockIds does not fail; it adds one fresh empty block of the requested
\* kind as the last root block, returns its id and leaves the other blocks
\* and their order unchanged.
C11_CreateAfterUnknownAppends ==
    CreateAtUnknownPlace =>
        LET new == lastCall.ret IN
        /\ new \notin DOMAIN pre.blocks
        /\ DOMAIN document.blocks = (DOMAIN pre.blocks) \cup {new}
        /\ document.blocks[new].type = lastCall.type
        /\ document.blocks[new].content = <<>>
        /\ document.rootBlockIds = pre.rootBlockIds \o <<new>>
        /\ OthersUnchanged(pre, document, {})

\* C11 witness: a block was created after an unknown id in a document of at
\* least two root blocks
C11_Witness ==
    /\ CreateAtUnknownPlace
    /\ Len(pre.rootBlockIds) >= 2

\* deleteBlock was called on one of at least two root blocks
DeleteOneOfMany ==
    /\ lastCall.op = "deleteBlock"
    /\ Len(pre.rootBlockIds) >= 2
    /\ lastCall.blockId \in Range(pre.rootBlockIds)

\* deleteBlock was called with an id that does not resolve to a block
DeleteUnknown ==
    /\ lastCall.op = "deleteBlock"
    /\ lastCall.blockId \notin DOMAIN pre.blocks

\* C12: deleteBlock(id) on one of at least two root blocks removes id from
\* rootBlockIds and from blocks, keeps every other block record and the order
\* of the remaining ids; with an id that does not resolve to a block it
\* leaves the Document, timestamps included, unchanged.
C12_DeleteBlock ==
    /\ DeleteOneOfMany =>
          /\ document.rootBlockIds =
                 RemoveAt(pre.rootBlockIds,
                          PositionOf(pre.rootBlockIds, lastCall.blockId))
          /\ DOMAIN document.blocks = (DOMAIN pre.blocks) \ {lastCall.blockId}
          /\ OthersUnchanged(pre, document, {lastCall.blockId})
    /\ DeleteUnknown => document = pre

(* ------------------------- history properties -------------------------- *)

\* the entries up to the pointer before the last call: what a commit keeps
KeptEntries ==
    Slice(hpre.history.entries, 0, hpre.history.currentIndex + 1)

\* the last call was pushHistory of a structural operation
StructuralCommit == lastCall.op = "pushHistory" /\ ~lastCall.batch

\* the last call was a batched pushHistory for another block or operation
\* type than the pending batch
OtherKeyCommit ==
    /\ lastCall.op = "pushHistory"
    /\ lastCall.batch
    /\ ~SameBatch(hpre.pendingBatch, lastCall.blockId, lastCall.operationType)

\* a batch was open and the last call was one that flushes it: its timeout,
\* commitBatch(), a commit with another key, a structural commit or undo
BatchFlushed ==
    /\ hpre.pendingBatch.open
    /\ \/ lastCall.op \in {"timeout", "commitBatch", "undo"}
       \/ OtherKeyCommit
       \/ StructuralCommit

\* t is a value Date.now() returned during the last call
StampedByCall(t) == hpre.now <= t /\ t <= now

\* entry is the entry the last call pushed for the batch that was open
IsBatchEntry(entry) ==
    /\ entry.operationType = hpre.pendingBatch.operationType
    /\ StampedByCall(entry.timestamp)

\* the entries are the kept ones followed by the one entry of the batch
\* that was open and then by the given entries
BatchEntryThen(entries, rest) ==
    LET k == Len(KeptEntries) IN
    /\ Len(entries) = k + 1 + Len(rest)
    /\ SubSeq(entries, 1, k) = KeptEntries
    /\ IsBatchEntry(entries[k + 1])
    /\ SubSeq(entries, k + 2, Len(entries)) = rest

\* C13: a batch made of one or more commits with the same block and
\* operation type leaves exactly one entry in the history once it is flushed
\* by its timeout, by a commit with another key, by a structural commit or
\* by undo.
C13_BatchIsOneEntry ==
    BatchFlushed =>
        LET k == Len(KeptEntries)
            added == SubSeq(history.entries, k + 1, Len(history.entries))
        IN /\ SubSeq(history.entries, 1, k) = KeptEntries
           /\ Cardinality({i \in 1..Len(added) : IsBatchEntry(added[i])}) = 1

\* C14: after typing in b1 three times without its timeout running, typing
\* in b2 and one undo, the history holds exactly two more entries than
\* before, and the Document is the one from before the first edit of b1.
C14_BurstThenUndo ==
    burst.phase = 5 =>
        /\ Len(history.entries) = burst.base + 2
        /\ document = burst.doc

\* C15: a structural commit made while a batch is open commits the batch as
\* its own entry and appends the structural entry after it, and leaves no
\* batch open.
C15_StructuralCommitFlushesBatch ==
    (StructuralCommit /\ hpre.pendingBatch.open) =>
        LET k == Len(KeptEntries) IN
        /\ Len(history.entries) = k + 2
        /\ SubSeq(history.entries, 1, k) = KeptEntries
        /\ IsBatchEntry(history.entries[k + 1])
        /\ history.entries[k + 2].operationType = lastCall.operationType
        /\ StampedByCall(history.entries[k + 2].timestamp)
        /\ history.entries[k + 1].timestamp <= history.entries[k + 2].timestamp
        /\ ~pendingBatch.open

\* C16: undo with a batch open commits the batch, whose entry stays in the
\* history after the pointer, and then, unless that entry is the earliest,
\* moves the pointer back one entry from it and makes that entry's Document
\* the live Document.
C16_UndoFlushesBatch ==
    (lastCall.op = "undo" /\ hpre.pendingBatch.open) =>
        LET k == Len(KeptEntries) IN
        /\ BatchEntryThen(history.entries, <<>>)
        /\ ~pendingBatch.open
        /\ IF k > 0
           THEN /\ history.currentIndex = k - 1
                /\ document = history.entries[k].document
                /\ canRedo(Store)
           ELSE /\ history.currentIndex = 0
                /\ document = pre

\* the last call pushed an entry: a structural commit, or the flush of the
\* open batch by its timeout, by commitBatch() or by a commit with another
\* key
Committed ==
    \/ StructuralCommit
    \/ /\ hpre.pendingBatch.open
       /\ \/ lastCall.op \in {"timeout", "commitBatch"}
          \/ OtherKeyCommit

\* redo was possible before the last call
RedoWasPossible ==
    hpre.history.currentIndex < Len(hpre.history.entries) - 1

\* C17: a structural commit or a batch flush keeps the entries up to the
\* pointer, discards the ones after it and leaves canRedo() false.
C17_CommitDiscardsRedo ==
    Committed =>
        LET k == Len(KeptEntries) IN
        /\ Len(history.entries) > k
        /\ SubSeq(history.entries, 1, k) = KeptEntries
        /\ \A i \in (k + 1)..Len(history.entries) :
              StampedByCall(history.entries[i].timestamp)
        /\ ~canRedo(Store)

\* C17 witness: a structural commit made when redo was possible
C17_Witness ==
    /\ StructuralCommit
    /\ RedoWasPossible
    /\ Len(history.entries) <= Len(hpre.history.entries)

\* C18: the history never holds more than maxEntries entries.
C18_HistoryBounded == Len(history.entries) <= history.maxEntries

\* C19: no timeout is scheduled while no batch is open, and exactly one,
\* the one of the batch, while a batch is open.
C19_OneTimerPerBatch ==
    timers = IF pendingBatch.open THEN {pendingBatch.timeoutId} ELSE {}

\* C19 witness: a commit extended the open batch and replaced its timeout
C19_Witness ==
    /\ lastCall.op = "pushHistory"
    /\ lastCall.batch
    /\ SameBatch(hpre.pendingBatch, lastCall.blockId, lastCall.operationType)
    /\ pendingBatch.open
    /\ pendingBatch.timeoutId # hpre.pendingBatch.timeoutId

\* commitBatch ran, called directly or by a timeout, while no batch was open
FlushWithoutBatch ==
    /\ lastCall.op \in {"timeout", "commitBatch"}
    /\ ~hpre.pendingBatch.open

\* C20: every opened batch is committed exactly once: commitBatch pushes one
\* entry for each batch that was opened and is no longer open and none for
\* the open one, and once a batch is flushed, by its timeout, by
\* commitBatch(), by a commit with another key, by a structural commit or by
\* undo, the history holds its entry once after the entries that are kept;
\* a timeout or a flush that runs with no batch open adds no entry and
\* changes nothing.
C20_BatchCommittedOnce ==
    /\ batchCommits = batchesOpened - (IF pendingBatch.open THEN 1 ELSE 0)
    /\ BatchFlushed =>
          LET k == Len(KeptEntries) IN
          /\ Len(history.entries) > k
          /\ IsBatchEntry(history.entries[k + 1])
          /\ \A i \in (k + 2)..Len(history.entries) :
                ~IsBatchEntry(history.entries[i])
    /\ FlushWithoutBatch =>
          /\ history = hpre.history
          /\ pendingBatch = hpre.pendingBatch
          /\ timers \subseteq hpre.timers
          /\ document = pre

\* the last call was the timeout of the open batch
DeadlineFlush == lastCall.op = "timeout" /\ hpre.pendingBatch.open

\* C21: an open batch does not stay open: the store gets back to having no
\* pending batch with every opened batch committed, and when it is the
\* timeout that closes the batch, the batch's entry is the last entry of the
\* history, after the entries kept up to the pointer.
C21_BatchDeadline ==
    /\ pendingBatch.open ~>
          (~pendingBatch.open /\ batchCommits = batchesOpened)
    /\ [](DeadlineFlush =>
            /\ ~pendingBatch.open
            /\ timers = {}
            /\ BatchEntryThen(history.entries, <<>>)
            /\ history.currentIndex = Len(history.entries) - 1)

\* C21 witness: the timeout closed a batch after the last call the bound
\* allows, and its entry is in the history
C21_Witness ==
    /\ DeadlineFlush
    /\ calls = MaxLiveCalls + 1
    /\ history.entries # <<>>

\* undo was called with no batch open and the pointer at the earliest entry
UndoAtEarliest ==
    /\ lastCall.op = "undo"
    /\ ~hpre.pendingBatch.open
    /\ hpre.history.entries # <<>>
    /\ hpre.history.currentIndex = 0

\* redo was called with the pointer at the latest entry
RedoAtLatest ==
    /\ lastCall.op = "redo"
    /\ hpre.history.entries # <<>>
    /\ hpre.history.currentIndex = Len(hpre.history.entries) - 1

\* C22: with a non-empty history the pointer is the index of an entry; undo
\* with no batch open at the earliest entry and redo at the latest entry
\* leave the Document, the entries and the pointer unchanged.
C22_PointerInBounds ==
    /\ history.entries # <<>> =>
          /\ 0 <= history.currentIndex
          /\ history.currentIndex < Len(history.entries)
    /\ (UndoAtEarliest \/ RedoAtLatest) =>
          /\ document = pre
          /\ history = hpre.history

\* C22 witness: undo was called at the earliest of at least two entries
C22_Witness ==
    /\ UndoAtEarliest
    /\ Len(hpre.history.entries) >= 2
    /\ canRedo(Store)

(* --------------------- split, update and focus ------------------------- *)

\* splitBlock was called with an id that does not resolve to a block
SplitUnknown ==
    /\ lastCall.op = "splitBlock"
    /\ lastCall.blockId \notin DOMAIN pre.blocks

\* C23: splitBlock on an id that does not resolve to a block does not fault:
\* it returns the empty string, which is the id of no block, adds no block
\* and leaves the Document unchanged.
C23_SplitUnknown ==
    SplitUnknown =>
        /\ lastCall.ret = ""
        /\ lastCall.ret \notin DOMAIN document.blocks
        /\ document = pre

\* splitBlock was called on a root block that bears text
SplitApplied ==
    /\ lastCall.op = "splitBlock"
    /\ lastCall.blockId \in Range(pre.rootBlockIds)
    /\ lastCall.blockId \in DOMAIN pre.blocks
    /\ HasContent(pre.blocks[lastCall.blockId].type)

\* after the split the block has text before and the new block text after
SplitTexts(before, after) ==
    /\ lastCall.ret \in DOMAIN document.blocks
    /\ TextOf(document, lastCall.blockId) = before
    /\ TextOf(document, lastCall.ret) = after

\* C24: splitBlock with an offset below 0 gives what offset 0 gives (the
\* block empty, the new block with the text T) and with an offset above
\* len(T) what offset len(T) gives (the block with T, the new block empty).
C24_OffsetsClamped ==
    SplitApplied =>
        LET T == TextOf(pre, lastCall.blockId) IN
        /\ lastCall.offset < 0 => SplitTexts(<<>>, T)
        /\ lastCall.offset > Len(T) => SplitTexts(T, <<>>)

\* C25: splitting a heading with non-empty text T at offset 0 leaves an
\* empty paragraph immediately before a heading that carries T.
C25_EnterAtStartOfHeading ==
    (/\ SplitApplied
     /\ StartsWithHeading(pre.blocks[lastCall.blockId].type)
     /\ TextOf(pre, lastCall.blockId) # <<>>
     /\ lastCall.offset = 0) =>
        LET T == TextOf(pre, lastCall.blockId)
            i == PositionOf(pre.rootBlockIds, lastCall.blockId)
            first == document.blocks[document.rootBlockIds[i]]
            second == document.blocks[document.rootBlockIds[i + 1]]
        IN /\ Len(document.rootBlockIds) = Len(pre.rootBlockIds) + 1
           /\ first.type = "paragraph"
           /\ richTextToPlainText(first.content) = <<>>
           /\ second.type = pre.blocks[lastCall.blockId].type
           /\ richTextToPlainText(second.content) = T

\* C26: splitBlock keeps the kind of the block that is split, and the new
\* block, placed right after it, is a paragraph.
C26_SplitKinds ==
    SplitApplied =>
        LET id == lastCall.blockId
            i == PositionOf(pre.rootBlockIds, id)
        IN /\ document.blocks[id].type = pre.blocks[id].type
           /\ document.rootBlockIds[i] = id
           /\ document.rootBlockIds[i + 1] = lastCall.ret
           /\ document.blocks[lastCall.ret].type = "paragraph"

\* C26 witness: a heading with text was split inside the text
C26_Witness ==
    /\ SplitApplied
    /\ StartsWithHeading(pre.blocks[lastCall.blockId].type)
    /\ lastCall.offset = 1
    /\ Len(TextOf(pre, lastCall.blockId)) = 2

\* updateBlockContent replaced the content of the block id and nothing else
\* but the two updatedAt
ContentReplaced(id) ==
    /\ document.blocks[id] =
          [pre.blocks[id] EXCEPT !.content = lastCall.content,
                                 !.updatedAt = document.blocks[id].updatedAt]
    /\ document = [pre EXCEPT !.blocks = document.blocks,
                              !.updatedAt = document.updatedAt]
    /\ DOMAIN document.blocks = DOMAIN pre.blocks
    /\ OthersUnchanged(pre, document, {id})

\* C27 as stated: updateBlockContent(id, content) on an existing block
\* replaces the block's content and advances its and the document's
\* updatedAt; rootBlockIds, the block's id, kind, children and createdAt and
\* every other block stay; on an id that resolves to no block the document
\* stays.
C27_UpdateAdvancesUpdatedAt ==
    lastCall.op = "updateBlockContent" =>
        LET id == lastCall.blockId IN
        IF id \in DOMAIN pre.blocks
        THEN /\ ContentReplaced(id)
             /\ document.blocks[id].updatedAt > pre.blocks[id].updatedAt
             /\ document.updatedAt > pre.updatedAt
        ELSE document = pre

\* C27 amended: updateBlockContent(id, content) on an existing block replaces
\* the block's content and sets its updatedAt and then the document's to the
\* values Date.now() returns during the call, which are not earlier than the
\* ones replaced and are equal to them when the clock has not moved since;
\* rootBlockIds, the block's id, kind, children and createdAt and every
\* other block stay; on an id that resolves to no block the document stays.
C27_UpdateBlockContent ==
    lastCall.op = "updateBlockContent" =>
        LET id == lastCall.blockId IN
        IF id \in DOMAIN pre.blocks
        THEN /\ ContentReplaced(id)
             /\ document.blocks[id].updatedAt = lastCall.ts[1]
             /\ document.updatedAt = lastCall.ts[2]
             /\ document.blocks[id].updatedAt >= pre.blocks[id].updatedAt
             /\ document.updatedAt >= pre.updatedAt
             /\ document.updatedAt >= document.blocks[id].updatedAt
        ELSE document = pre

\* C27 witness: the content of the second of two blocks, which had content,
\* was replaced with other content in the unit of time of the call before
C27_Witness ==
    /\ lastCall.op = "updateBlockContent"
    /\ document.updatedAt = pre.updatedAt
    /\ Len(pre.rootBlockIds) >= 2
    /\ lastCall.blockId = pre.rootBlockIds[2]
    /\ pre.blocks[lastCall.blockId].content # <<>>
    /\ pre.blocks[lastCall.blockId].content # lastCall.content

\* ref is null or the id of a block of the document
Resolves(ref) == ref = Null \/ ref \in DOMAIN document.blocks

\* C28: the selection's anchor and focus blocks and ui.focusedBlockId are
\* null or ids of blocks that exist in document.blocks.
C28_NoDanglingReference ==
    /\ \/ selection = Null
       \/ Resolves(selection.anchorBlockId) /\ Resolves(selection.focusBlockId)
    /\ Resolves(ui.focusedBlockId)

====
